---- MODULE Spec2Model ----
(***************************************************************************)
(* Risk decision engine of the ML models service (src/ml-models/app):      *)
(* the fraud scorer, the credit scorer, the risk aggregator, the model     *)
(* loader of each scorer and the health/readiness probes.                  *)
(*                                                                         *)
(* Numbers.  The code computes in floating point; the model computes the   *)
(* same expressions exactly, in fixed point, with one unit per feature:    *)
(*   amount, avg_amount_7d, monthly_income, total_balance, day and hour    *)
(*   features, transaction and loan counts ........ whole units            *)
(*   device_risk, location_risk, delinquency_count,                        *)
(*   credit_utilization, savings_ratio ............. hundredths            *)
(*   fraud scores, amount risk ..................... thousandths           *)
(*   credit score before int() ..................... hundredths of a point *)
(*   credit_risk ................................... 1/850                 *)
(*   overall risk .................................. 1/85000               *)
(*   velocity_score ................................ tenths                *)
(*   amount_vs_avg_ratio ........................... a reduced fraction    *)
(* NaN and infinities are outside the model.                               *)
(***************************************************************************)
EXTENDS Integers, Sequences, FiniteSets, TLC

VARIABLES
    pc,               \* "import_fraud", "import_credit", "serving": app/main.py's imports
    fraud_file,       \* what settings.FRAUD_MODEL_PATH holds: "missing", "corrupt", "valid"
    credit_file,      \* what settings.CREDIT_MODEL_PATH holds
    fraud_model,      \* fraud_model.model: "None" or "Loaded"
    credit_model,     \* credit_model.model: "None" or "Loaded"
    fraud_log,        \* the line load_model printed for the fraud scorer
    credit_log,       \* the line load_model printed for the credit scorer
    fraud_feature_names,   \* fraud_model.feature_names, <<>> before construction
    credit_feature_names,  \* credit_model.feature_names, <<>> before construction
    FRAUD_THRESHOLD,  \* settings.FRAUD_THRESHOLD, in thousandths
    raised,           \* the last operation let an exception reach its caller
    call,             \* the current request: pending with its input, or done
                      \* with the path taken and the result
    kept              \* an answer a caller kept to compare later ones with

vars == <<pc, fraud_file, credit_file, fraud_model, credit_model,
          fraud_log, credit_log, fraud_feature_names, credit_feature_names,
          FRAUD_THRESHOLD, raised, call, kept>>

-----------------------------------------------------------------------------
(* Configuration: app/config.py *)

CREDIT_SCORE_MIN == 300

CREDIT_SCORE_MAX == 850

\* FRAUD_THRESHOLD: float = 0.5
DefaultFraudThreshold == 500

\* values the environment may configure for FRAUD_THRESHOLD
Thresholds == {300, DefaultFraudThreshold, 750}

-----------------------------------------------------------------------------
(* Feature mappings: a FeatureSet is a function from some keys to numbers. *)
(* The keys a caller sent with the value None (a JSON null) are held apart *)
(* from it, as a set of keys: the nulls of the request.                    *)

Get(features, key, default) ==
    IF key \in DOMAIN features THEN features[key] ELSE default

\* the entries of a sequence
Range(seq) == {seq[i] : i \in DOMAIN seq}

\* a mapping less the keys whose value is None
Without(features, nulls) == [k \in DOMAIN features \ nulls |-> features[k]]

Min(a, b) == IF a <= b THEN a ELSE b

Max(a, b) == IF a >= b THEN a ELSE b

Abs(a) == IF a >= 0 THEN a ELSE -a

RECURSIVE GCD(_, _)
GCD(a, b) == IF b = 0 THEN a ELSE GCD(b, a % b)

\* a / b for b >= 1, as a fraction in lowest terms
Divide(a, b) ==
    LET g == GCD(Abs(a), b)
    IN  [num |-> a \div g, den |-> b \div g]

\* round(x) in place of int(x): to the nearest whole number
IntOfHundredthsRounded(x) ==
    IF x >= 0 THEN (x + 50) \div 100 ELSE -((-x + 50) \div 100)

\* int(x) of a value x given in hundredths: truncation towards zero
IntOfHundredths(x) == IF x >= 0 THEN x \div 100 ELSE -((-x) \div 100)

-----------------------------------------------------------------------------
(* Model loader: FraudDetectionModel.load_model, CreditScoringModel.load_model *)

\* load_model without its try/except: joblib.load's exception escapes
LoadModelUncaught(file) ==
    IF file # "missing"
    THEN IF file = "valid"
         THEN [model |-> "Loaded", log |-> "loaded", raised |-> FALSE]
         ELSE [model |-> "None", log |-> "load_error", raised |-> TRUE]
    ELSE [model |-> "None", log |-> "not_found", raised |-> FALSE]

\* os.path.exists, then joblib.load inside try/except Exception
LoadModel(file) ==
    IF file # "missing"
    THEN IF file = "valid"
         THEN [model |-> "Loaded", log |-> "loaded", raised |-> FALSE]
         ELSE [model |-> "None", log |-> "load_error", raised |-> FALSE]
    ELSE [model |-> "None", log |-> "not_found", raised |-> FALSE]

-----------------------------------------------------------------------------
(* Fraud scorer: app/models/fraud_model.py *)

FraudFeatureNames ==
    <<"amount", "hour", "day_of_week", "transaction_count_24h",
      "transaction_count_7d", "avg_amount_7d", "beneficiary_age_days",
      "device_risk", "location_risk", "user_account_age_days",
      "user_balance", "is_new_beneficiary", "is_unusual_hour",
      "amount_vs_avg_ratio", "velocity_score">>

\* _prepare_features skipping the names the mapping lacks
PrepareFeaturesSkipMissing(names, features) ==
    LET present == SelectSeq(names, LAMBDA name : name \in DOMAIN features)
    IN  [i \in 1..Len(present) |-> features[present[i]]]

\* _prepare_features: features.get(name, 0.0) for each declared name, in order
PrepareFeatures(names, features) ==
    [i \in 1..Len(names) |-> Get(features, names[i], 0)]

GetRiskLevel(score) ==
    IF score >= 700 THEN "HIGH"
    ELSE IF score >= 400 THEN "MEDIUM"
    ELSE "LOW"

\* the rule score with the two upper amount bands exchanged
FraudRuleScoreBandsSwapped(features) ==
    LET amount == Get(features, "amount", 0)
        beneficiary_age == Get(features, "beneficiary_age_days", 365)
        txn_count_24h == Get(features, "transaction_count_24h", 0)
        s_amount == IF amount > 200000 THEN 200
                    ELSE IF amount > 100000 THEN 400
                    ELSE IF amount > 50000 THEN 100
                    ELSE 0
        s_beneficiary == IF beneficiary_age < 7 THEN 300 ELSE 0
        s_velocity == IF txn_count_24h > 10 THEN 300
                      ELSE IF txn_count_24h > 5 THEN 150
                      ELSE 0
        s_device == Get(features, "device_risk", 0)
        s_location == Get(features, "location_risk", 0)
        score == s_amount + s_beneficiary + s_velocity + s_device + s_location
    IN  IF score > 1000 THEN 1000 ELSE score

\* the rule score without its cap at 1.0
FraudRuleScoreUncapped(features) ==
    LET amount == Get(features, "amount", 0)
        beneficiary_age == Get(features, "beneficiary_age_days", 365)
        txn_count_24h == Get(features, "transaction_count_24h", 0)
        s_amount == IF amount > 200000 THEN 400
                    ELSE IF amount > 100000 THEN 200
                    ELSE IF amount > 50000 THEN 100
                    ELSE 0
        s_beneficiary == IF beneficiary_age < 7 THEN 300 ELSE 0
        s_velocity == IF txn_count_24h > 10 THEN 300
                      ELSE IF txn_count_24h > 5 THEN 150
                      ELSE 0
        s_device == Get(features, "device_risk", 0)
        s_location == Get(features, "location_risk", 0)
    IN  s_amount + s_beneficiary + s_velocity + s_device + s_location

\* the additive rule score of _mock_predict, capped at 1.0 from above only
FraudRuleScore(features) ==
    LET amount == Get(features, "amount", 0)
        beneficiary_age == Get(features, "beneficiary_age_days", 365)
        txn_count_24h == Get(features, "transaction_count_24h", 0)
        s_amount == IF amount > 200000 THEN 400
                    ELSE IF amount > 100000 THEN 200
                    ELSE IF amount > 50000 THEN 100
                    ELSE 0
        s_beneficiary == IF beneficiary_age < 7 THEN 300 ELSE 0
        s_velocity == IF txn_count_24h > 10 THEN 300
                      ELSE IF txn_count_24h > 5 THEN 150
                      ELSE 0
        \* hundredths * 0.1 = thousandths
        s_device == Get(features, "device_risk", 0)
        s_location == Get(features, "location_risk", 0)
        score == s_amount + s_beneficiary + s_velocity + s_device + s_location
    IN  IF score > 1000 THEN 1000 ELSE score

\* _mock_predict comparing with a literal 0.5 instead of settings.FRAUD_THRESHOLD
FraudMockPredictFixedThreshold(features) ==
    LET score == FraudRuleScore(features)
    IN  [fraud_score |-> score,
         risk_level |-> GetRiskLevel(score),
         is_fraud |-> score >= 500]

FraudMockPredict(features) ==
    LET score == FraudRuleScore(features)
    IN  [fraud_score |-> score,
         risk_level |-> GetRiskLevel(score),
         is_fraud |-> score >= FRAUD_THRESHOLD]

\* the keys _mock_predict compares or multiplies
FraudMockReads ==
    {"amount", "beneficiary_age_days", "transaction_count_24h",
     "device_risk", "location_risk"}

\* FraudDetectionModel.predict raises TypeError: the rules compare or multiply
\* a None, or _prepare_features calls float(None)
FraudPredictRaises(model, nulls) ==
    IF model = "None"
    THEN nulls \cap FraudMockReads # {}
    ELSE nulls \cap Range(fraud_feature_names) # {}

\* FraudDetectionModel.predict, with the path it took; proba is what the
\* loaded classifier's predict_proba returns for the fraud class
FraudModelPredict(model, features, proba) ==
    IF model = "None"
    THEN [path |-> "rule", result |-> FraudMockPredict(features)]
    ELSE [path |-> "model",
          feature_vector |-> PrepareFeatures(fraud_feature_names, features),
          model_output |-> proba,
          result |-> [fraud_score |-> proba,
                      risk_level |-> GetRiskLevel(proba),
                      is_fraud |-> proba >= FRAUD_THRESHOLD]]

-----------------------------------------------------------------------------
(* Credit scorer: app/models/credit_model.py *)

CreditFeatureNames ==
    <<"account_age_days", "monthly_income", "total_balance",
      "transaction_count_30d", "delinquency_count", "loan_history_count",
      "avg_transaction_amount", "credit_utilization", "savings_ratio">>

\* the clamp without its lower bound
ClampCreditScoreNoFloor(score) == Min(CREDIT_SCORE_MAX * 100, score)

\* max(settings.CREDIT_SCORE_MIN, min(settings.CREDIT_SCORE_MAX, score)),
\* score in hundredths of a point
ClampCreditScore(score) ==
    Max(CREDIT_SCORE_MIN * 100, Min(CREDIT_SCORE_MAX * 100, score))

\* _get_risk_category, score in hundredths of a point
CreditGetRiskCategory(score) ==
    IF score >= 75000 THEN "LOW"
    ELSE IF score >= 70000 THEN "MEDIUM_LOW"
    ELSE IF score >= 65000 THEN "MEDIUM"
    ELSE IF score >= 60000 THEN "MEDIUM_HIGH"
    ELSE "HIGH"

\* _get_score_range with GOOD starting at 720
GetScoreRangeShifted(score) ==
    IF score >= 75000 THEN "EXCELLENT"
    ELSE IF score >= 72000 THEN "GOOD"
    ELSE IF score >= 65000 THEN "FAIR"
    ELSE IF score >= 60000 THEN "POOR"
    ELSE "VERY_POOR"

\* _get_score_range, score in hundredths of a point
GetScoreRange(score) ==
    IF score >= 75000 THEN "EXCELLENT"
    ELSE IF score >= 70000 THEN "GOOD"
    ELSE IF score >= 65000 THEN "FAIR"
    ELSE IF score >= 60000 THEN "POOR"
    ELSE "VERY_POOR"

\* _get_factor_analysis: a sparse mapping; the delinquency note carries the count
GetFactorAnalysis(features) ==
    LET account_age == Get(features, "account_age_days", 0)
        delinquency == Get(features, "delinquency_count", 0)
        income == Get(features, "monthly_income", 0)
        f_age == IF account_age < 90
                 THEN "account_age" :> "New account - negative impact"
                 ELSE IF account_age > 365
                 THEN "account_age" :> "Established account - positive impact"
                 ELSE <<>>
        f_delinquency == IF delinquency > 0
                         THEN "delinquency" :> <<delinquency, "delinquencies - negative impact">>
                         ELSE <<>>
        f_income == IF income > 100000
                    THEN "income" :> "High income - positive impact"
                    ELSE IF income < 25000
                    THEN "income" :> "Low income - negative impact"
                    ELSE <<>>
    IN  f_age @@ f_delinquency @@ f_income

\* the rule score with >= in place of > at every band edge
CreditRuleScoreInclusive(features) ==
    LET account_age == Get(features, "account_age_days", 365)
        income == Get(features, "monthly_income", 50000)
        balance == Get(features, "total_balance", 100000)
        delinquency == Get(features, "delinquency_count", 0)
        loan_history == Get(features, "loan_history_count", 0)
        s_age == IF account_age >= 365 THEN 5000
                 ELSE IF account_age >= 180 THEN 3000
                 ELSE IF account_age >= 90 THEN 1500
                 ELSE 0
        s_income == IF income >= 100000 THEN 10000
                    ELSE IF income >= 50000 THEN 6000
                    ELSE IF income >= 25000 THEN 3000
                    ELSE 0
        s_delinquency == delinquency * 20
        s_loan == IF loan_history > 0 THEN 3000 ELSE 0
        s_balance == IF balance >= 100000 THEN 5000
                     ELSE IF balance >= 50000 THEN 3000
                     ELSE 0
    IN  60000 + s_age + s_income - s_delinquency + s_loan + s_balance

\* the rule score with the income bonuses of the top and bottom bands exchanged
CreditRuleScoreIncomeSwapped(features) ==
    LET account_age == Get(features, "account_age_days", 365)
        income == Get(features, "monthly_income", 50000)
        balance == Get(features, "total_balance", 100000)
        delinquency == Get(features, "delinquency_count", 0)
        loan_history == Get(features, "loan_history_count", 0)
        s_age == IF account_age > 365 THEN 5000
                 ELSE IF account_age > 180 THEN 3000
                 ELSE IF account_age > 90 THEN 1500
                 ELSE 0
        s_income == IF income > 100000 THEN 3000
                    ELSE IF income > 50000 THEN 6000
                    ELSE IF income > 25000 THEN 10000
                    ELSE 0
        s_delinquency == delinquency * 20
        s_loan == IF loan_history > 0 THEN 3000 ELSE 0
        s_balance == IF balance > 100000 THEN 5000
                     ELSE IF balance > 50000 THEN 3000
                     ELSE 0
    IN  60000 + s_age + s_income - s_delinquency + s_loan + s_balance

\* the additive rule score of _mock_predict before the clamp, in hundredths
CreditRuleScore(features) ==
    LET account_age == Get(features, "account_age_days", 365)
        income == Get(features, "monthly_income", 50000)
        balance == Get(features, "total_balance", 100000)
        delinquency == Get(features, "delinquency_count", 0)
        loan_history == Get(features, "loan_history_count", 0)
        s_age == IF account_age > 365 THEN 5000
                 ELSE IF account_age > 180 THEN 3000
                 ELSE IF account_age > 90 THEN 1500
                 ELSE 0
        s_income == IF income > 100000 THEN 10000
                    ELSE IF income > 50000 THEN 6000
                    ELSE IF income > 25000 THEN 3000
                    ELSE 0
        \* hundredths of a delinquency * 20 = hundredths of a point
        s_delinquency == delinquency * 20
        s_loan == IF loan_history > 0 THEN 3000 ELSE 0
        s_balance == IF balance > 100000 THEN 5000
                     ELSE IF balance > 50000 THEN 3000
                     ELSE 0
    IN  60000 + s_age + s_income - s_delinquency + s_loan + s_balance

CreditMockPredict(features) ==
    LET score == ClampCreditScore(CreditRuleScore(features))
    IN  [credit_score |-> IntOfHundredths(score),
         risk_category |-> CreditGetRiskCategory(score),
         score_range |-> GetScoreRange(score),
         factors |-> GetFactorAnalysis(features)]

\* the keys _mock_predict and _get_factor_analysis compare or multiply
CreditMockReads ==
    {"account_age_days", "monthly_income", "total_balance",
     "delinquency_count", "loan_history_count"}

\* CreditScoringModel.predict raises TypeError: the rules compare or multiply
\* a None, or _prepare_features calls float(None)
CreditPredictRaises(model, nulls) ==
    IF model = "None"
    THEN nulls \cap CreditMockReads # {}
    ELSE nulls \cap (Range(credit_feature_names) \cup CreditMockReads) # {}

\* CreditScoringModel.predict, with the path it took; raw is what the loaded
\* regressor's predict returns, in hundredths of a point
CreditModelPredict(model, features, raw) ==
    IF model = "None"
    THEN [path |-> "rule", result |-> CreditMockPredict(features)]
    ELSE LET credit_score == ClampCreditScore(raw)
         IN  [path |-> "model",
              feature_vector |-> PrepareFeatures(credit_feature_names, features),
              model_output |-> raw,
              result |-> [credit_score |-> IntOfHundredths(credit_score),
                          risk_category |-> CreditGetRiskCategory(credit_score),
                          score_range |-> GetScoreRange(credit_score),
                          factors |-> GetFactorAnalysis(features)]]

-----------------------------------------------------------------------------
(* Risk aggregator: app/models/risk_model.py *)

\* credit_features with 0 for every key the mapping lacks
CreditFeaturesZeroDefaults(features) ==
    [account_age_days |-> Get(features, "account_age_days", 0),
     monthly_income |-> Get(features, "monthly_income", 0),
     total_balance |-> Get(features, "total_balance", 0),
     transaction_count_30d |-> Get(features, "transaction_count_30d", 0),
     delinquency_count |-> Get(features, "delinquency_count", 0),
     loan_history_count |-> Get(features, "loan_history_count", 0),
     avg_transaction_amount |-> Get(features, "avg_transaction_amount", 0),
     credit_utilization |-> Get(features, "credit_utilization", 0),
     savings_ratio |-> Get(features, "savings_ratio", 0)]

\* the credit_features dict of RiskScoringModel.predict
CreditFeatures(features) ==
    [account_age_days |-> Get(features, "account_age_days", 365),
     monthly_income |-> Get(features, "monthly_income", 50000),
     total_balance |-> Get(features, "total_balance", 100000),
     transaction_count_30d |-> Get(features, "transaction_count_30d", 10),
     delinquency_count |-> Get(features, "delinquency_count", 0),
     loan_history_count |-> Get(features, "loan_history_count", 0),
     avg_transaction_amount |-> Get(features, "avg_transaction_amount", 10000),
     credit_utilization |-> Get(features, "credit_utilization", 30),
     savings_ratio |-> Get(features, "savings_ratio", 20)]

\* the fraud_features dict of RiskScoringModel.predict
FraudFeatures(features) ==
    [amount |-> Get(features, "amount", 0),
     hour |-> Get(features, "hour", 12),
     day_of_week |-> Get(features, "day_of_week", 3),
     transaction_count_24h |-> Get(features, "transaction_count_24h", 0),
     transaction_count_7d |-> Get(features, "transaction_count_7d", 5),
     avg_amount_7d |-> Get(features, "avg_amount_7d", 10000),
     beneficiary_age_days |-> Get(features, "beneficiary_age_days", 365),
     device_risk |-> Get(features, "device_risk", 0),
     location_risk |-> Get(features, "location_risk", 0),
     user_account_age_days |-> Get(features, "account_age_days", 365),
     user_balance |-> Get(features, "total_balance", 100000),
     is_new_beneficiary |->
         IF Get(features, "beneficiary_age_days", 365) < 7 THEN 1 ELSE 0,
     is_unusual_hour |->
         IF Get(features, "hour", 12) < 6 \/ Get(features, "hour", 12) > 23
         THEN 1 ELSE 0,
     amount_vs_avg_ratio |->
         Divide(Get(features, "amount", 0), Max(Get(features, "avg_amount_7d", 1), 1)),
     \* min(count / 10.0, 1.0), in tenths
     velocity_score |-> Min(Get(features, "transaction_count_24h", 0), 10)]

\* the keys of credit_features whose value is None
CreditFeaturesNulls(nulls) ==
    nulls \cap {"account_age_days", "monthly_income", "total_balance",
                "transaction_count_30d", "delinquency_count", "loan_history_count",
                "avg_transaction_amount", "credit_utilization", "savings_ratio"}

\* the keys of fraud_features whose value is None
FraudFeaturesNulls(nulls) ==
    (nulls \cap {"amount", "hour", "day_of_week", "transaction_count_24h",
                 "transaction_count_7d", "avg_amount_7d", "beneficiary_age_days",
                 "device_risk", "location_risk"})
    \cup (IF "account_age_days" \in nulls THEN {"user_account_age_days"} ELSE {})
    \cup (IF "total_balance" \in nulls THEN {"user_balance"} ELSE {})

\* the keys the derived fraud features and the amount risk compare or divide
RiskDerivationReads ==
    {"beneficiary_age_days", "hour", "amount", "avg_amount_7d",
     "transaction_count_24h"}

\* RiskScoringModel.predict raises TypeError, itself or in a scorer
RiskPredictRaises(nulls) ==
    \/ nulls \cap RiskDerivationReads # {}
    \/ CreditPredictRaises(credit_model, CreditFeaturesNulls(nulls))
    \/ FraudPredictRaises(fraud_model, FraudFeaturesNulls(nulls))

\* _calculate_amount_risk with >= at every band edge
CalculateAmountRiskInclusive(amount) ==
    IF amount >= 200000 THEN 800
    ELSE IF amount >= 100000 THEN 500
    ELSE IF amount >= 50000 THEN 300
    ELSE 100

\* _calculate_amount_risk, in thousandths
CalculateAmountRisk(amount) ==
    IF amount > 200000 THEN 800
    ELSE IF amount > 100000 THEN 500
    ELSE IF amount > 50000 THEN 300
    ELSE 100

\* the weights of fraud risk and amount risk exchanged
WeightedCombinationSwapped(credit_risk, fraud_risk, amount_risk) ==
    credit_risk * 40 + fraud_risk * 17 + amount_risk * 34

\* credit_risk * 0.4 + fraud_risk * 0.4 + amount_risk * 0.2 in 1/85000:
\* credit_risk is in 1/850, fraud_risk and amount_risk in thousandths
WeightedCombination(credit_risk, fraud_risk, amount_risk) ==
    credit_risk * 40 + fraud_risk * 34 + amount_risk * 17

\* the overall risk capped at 1.0 but not floored at 0.0
ClampOverallRiskNoFloor(overall_risk) == Min(85000, overall_risk)

\* max(0.0, min(1.0, overall_risk)), in 1/85000
ClampOverallRisk(overall_risk) == Max(0, Min(85000, overall_risk))

\* _get_risk_category, risk in 1/85000: 0.3 and 0.6
RiskGetRiskCategory(risk) ==
    IF risk < 25500 THEN "LOW"
    ELSE IF risk < 51000 THEN "MEDIUM"
    ELSE "HIGH"

\* _get_recommendation blocking from 0.6
GetRecommendationBlockAbove06(risk) ==
    IF risk > 51000 THEN "BLOCK"
    ELSE IF risk > 34000 THEN "REVIEW"
    ELSE "APPROVE"

\* _get_recommendation, risk in 1/85000: 0.7 and 0.4
GetRecommendation(risk) ==
    IF risk > 59500 THEN "BLOCK"
    ELSE IF risk > 34000 THEN "REVIEW"
    ELSE "APPROVE"

\* RiskScoringModel.predict from the two scorers' results
RiskDecision(features, credit_result, fraud_result) ==
    LET credit_score == credit_result.credit_score
        credit_risk == 850 - credit_score
        fraud_risk == fraud_result.fraud_score
        amount == Get(features, "amount", 0)
        amount_risk == CalculateAmountRisk(amount)
        overall_risk ==
            ClampOverallRisk(WeightedCombination(credit_risk, fraud_risk, amount_risk))
    IN  [overall_risk_score |-> overall_risk,
         risk_category |-> RiskGetRiskCategory(overall_risk),
         components |-> [credit_risk |-> credit_risk,
                         fraud_risk |-> fraud_risk,
                         amount_risk |-> amount_risk],
         credit_score |-> credit_score,
         fraud_score |-> fraud_risk,
         recommendation |-> GetRecommendation(overall_risk)]

-----------------------------------------------------------------------------
(* Inputs *)

FileStates == {"missing", "corrupt", "valid"}

\* what a loaded classifier may return for the fraud class, in thousandths
Probabilities == {0, 299, 300, 399, 400, 500, 699, 700, 750, 1000}

\* what a loaded regressor may return, in hundredths of a point
RawScores == {-10000, 29999, 30000, 59999, 60000, 64950, 70000, 74999, 75000, 85001}

\* what the handle answers when asked: an absent handle is never asked, and
\* the predict operators then ignore the answer
Answers(model, outputs) == IF model = "None" THEN {0} ELSE outputs

\* none, or one of vals
Option(vals) == {<<>>} \cup {<<v>> : v \in vals}

\* the FeatureSet holding the keys of opts that have a value
FeatureSetOf(opts) ==
    [k \in {x \in DOMAIN opts : opts[x] # <<>>} |-> opts[k][1]]

AmountValues == {0, 50000, 50001, 100000, 100001, 200000, 200001, 250000}

IncomeValues == {20000, 25000, 25001, 50000, 50001, 100000, 120000}

FraudInputs ==
    {FeatureSetOf([amount |-> a, beneficiary_age_days |-> b,
                   transaction_count_24h |-> t, device_risk |-> d,
                   location_risk |-> l]) :
        a \in Option(AmountValues),
        b \in Option({3, 7}),
        t \in Option({5, 6, 10, 12}),
        d \in Option({-100, 80, 150}),
        l \in Option({-100, 60})}

CreditInputs ==
    {FeatureSetOf([account_age_days |-> a, monthly_income |-> i,
                   delinquency_count |-> d, loan_history_count |-> l,
                   total_balance |-> b]) :
        a \in Option({89, 90, 91, 180, 181, 365, 400}),
        i \in Option(IncomeValues),
        d \in Option({-1000, 0, 2, 100, 2000}),
        l \in Option({0, 1}),
        b \in Option({50000, 50001, 100000, 150000})}

Empty == [k \in {} |-> 0]

\* spec.md section 8, Scenario 1
Scenario1 ==
    [amount |-> 250000, beneficiary_age_days |-> 3, transaction_count_24h |-> 12,
     device_risk |-> 80, location_risk |-> 60]

\* spec.md section 8, Scenario 2
Scenario2 ==
    [account_age_days |-> 400, monthly_income |-> 120000, delinquency_count |-> 100,
     loan_history_count |-> 1, total_balance |-> 150000]

\* spec.md section 8, Scenario 3: the two together
Scenario3 == Scenario1 @@ Scenario2

ScenarioInputs == {Empty, Scenario1, Scenario2, Scenario3}

\* how many keys of a base FeatureSet a risk input changes or drops
MaxOverrides == 2

\* the values a risk input may give each key
RiskValues ==
    [amount |-> AmountValues,
     beneficiary_age_days |-> {3, 7},
     transaction_count_24h |-> {5, 6, 12},
     device_risk |-> {-100, 80},
     location_risk |-> {-100, 60},
     account_age_days |-> {89, 181, 400},
     monthly_income |-> {20000, 50001, 120000},
     delinquency_count |-> {-1000, 100, 2000},
     loan_history_count |-> {0, 1},
     total_balance |-> {50001, 150000},
     avg_amount_7d |-> {0, 2, 10000},
     hour |-> {5, 6, 23, 24}]

\* one more key of edit e given a value, or dropped
ExtendEdit(e) ==
    LET free == DOMAIN RiskValues \ (DOMAIN e.set \cup e.del)
    IN  UNION {{[set |-> e.set @@ (k :> v), del |-> e.del] : v \in RiskValues[k]} : k \in free}
        \cup {[set |-> e.set, del |-> e.del \cup {k}] : k \in free}

\* the edits of at most n keys
RECURSIVE Edits(_)
Edits(n) ==
    IF n = 0
    THEN {[set |-> Empty, del |-> {}]}
    ELSE LET fewer == Edits(n - 1)
         IN  fewer \cup UNION {ExtendEdit(e) : e \in fewer}

ApplyEdit(base, e) ==
    [k \in (DOMAIN base \ e.del) \cup DOMAIN e.set |->
        IF k \in DOMAIN e.set THEN e.set[k] ELSE base[k]]

RiskInputs == {ApplyEdit(b, e) : b \in {Empty, Scenario3}, e \in Edits(MaxOverrides)}

-----------------------------------------------------------------------------
(* Operations.  The handlers are coroutines that never await: requests are *)
(* served one at a time.                                                   *)

\* from app.models.fraud_model import fraud_model: FraudDetectionModel()
ImportFraudModel ==
    /\ pc = "import_fraud"
    /\ fraud_feature_names' = FraudFeatureNames
    /\ LET loaded == LoadModel(fraud_file)
       IN  /\ fraud_model' = loaded.model
           /\ fraud_log' = loaded.log
           /\ raised' = loaded.raised
           /\ pc' = IF loaded.raised THEN "failed" ELSE "import_credit"
    /\ call' = [op |-> "import_fraud", status |-> "done"]
    /\ UNCHANGED <<fraud_file, credit_file, credit_model, credit_log,
                   credit_feature_names, FRAUD_THRESHOLD, kept>>

\* from app.models.credit_model import credit_model: CreditScoringModel()
ImportCreditModel ==
    /\ pc = "import_credit"
    /\ credit_feature_names' = CreditFeatureNames
    /\ LET loaded == LoadModel(credit_file)
       IN  /\ credit_model' = loaded.model
           /\ credit_log' = loaded.log
           /\ raised' = loaded.raised
           /\ pc' = IF loaded.raised THEN "failed" ELSE "serving"
    /\ call' = [op |-> "import_credit", status |-> "done"]
    /\ UNCHANGED <<fraud_file, credit_file, fraud_model, fraud_log,
                   fraud_feature_names, FRAUD_THRESHOLD, kept>>

\* the environment writes, replaces or removes an artifact file
ArtifactChange ==
    /\ \E s \in FileStates :
          \/ fraud_file' = s /\ fraud_file # s /\ UNCHANGED credit_file
          \/ credit_file' = s /\ credit_file # s /\ UNCHANGED fraud_file
    /\ UNCHANGED <<pc, fraud_model, credit_model, fraud_log, credit_log,
                   fraud_feature_names, credit_feature_names,
                   FRAUD_THRESHOLD, raised, call, kept>>

\* a caller asks for a prediction: op is "fraud", "credit" or "risk"
Request(op, features) ==
    /\ pc = "serving"
    /\ call.status = "done"
    /\ call' = [op |-> op, status |-> "pending", features |-> features, nulls |-> {}]
    /\ kept' = IF kept.op = "none" THEN kept ELSE [kept EXCEPT !.later = TRUE]
    /\ UNCHANGED <<pc, fraud_file, credit_file, fraud_model, credit_model,
                   fraud_log, credit_log, fraud_feature_names,
                   credit_feature_names, FRAUD_THRESHOLD, raised>>

\* a caller keeps the answer it just received
Keep ==
    /\ pc = "serving"
    /\ call.status = "done"
    /\ call.op \in {"fraud", "credit", "risk"}
    /\ kept.op = "none"
    /\ kept' = [op |-> call.op, answer |-> call, later |-> FALSE]
    /\ UNCHANGED <<pc, fraud_file, credit_file, fraud_model, credit_model,
                   fraud_log, credit_log, fraud_feature_names,
                   credit_feature_names, FRAUD_THRESHOLD, raised, call>>

\* the router's except Exception: HTTPException(500, "Prediction error: ...")
PredictionError(request) ==
    [op |-> request.op, status |-> "done", features |-> request.features,
     nulls |-> request.nulls, path |-> "error", status_code |-> 500,
     detail |-> "Prediction error"]

\* predict retrying the load when the handle is absent
FraudPredictReloading ==
    /\ pc = "serving"
    /\ call.op = "fraud" /\ call.status = "pending"
    /\ LET loaded == IF fraud_model = "None"
                     THEN LoadModel(fraud_file)
                     ELSE [model |-> fraud_model, log |-> fraud_log]
       IN  /\ fraud_model' = loaded.model
           /\ fraud_log' = loaded.log
           /\ IF FraudPredictRaises(loaded.model, call.nulls)
              THEN /\ call' = PredictionError(call)
                   /\ raised' = TRUE
              ELSE /\ \E proba \in Answers(loaded.model, Probabilities) :
                         call' = [op |-> "fraud", status |-> "done",
                                  features |-> call.features, nulls |-> call.nulls]
                                 @@ FraudModelPredict(loaded.model, call.features, proba)
                   /\ raised' = FALSE
    /\ UNCHANGED <<pc, fraud_file, credit_file, credit_model, credit_log,
                   fraud_feature_names, credit_feature_names, FRAUD_THRESHOLD, kept>>

\* POST /api/v1/fraud/predict: fraud_model.predict(features)
FraudPredict ==
    /\ pc = "serving"
    /\ call.op = "fraud" /\ call.status = "pending"
    /\ IF FraudPredictRaises(fraud_model, call.nulls)
       THEN /\ call' = PredictionError(call)
            /\ raised' = TRUE
       ELSE /\ \E proba \in Answers(fraud_model, Probabilities) :
                  call' = [op |-> "fraud", status |-> "done",
                           features |-> call.features, nulls |-> call.nulls]
                          @@ FraudModelPredict(fraud_model, call.features, proba)
            /\ raised' = FALSE
    /\ UNCHANGED <<pc, fraud_file, credit_file, fraud_model, credit_model,
                   fraud_log, credit_log, fraud_feature_names,
                   credit_feature_names, FRAUD_THRESHOLD, kept>>

\* POST /api/v1/scoring/credit: credit_model.predict(features)
CreditPredict ==
    /\ pc = "serving"
    /\ call.op = "credit" /\ call.status = "pending"
    /\ IF CreditPredictRaises(credit_model, call.nulls)
       THEN /\ call' = PredictionError(call)
            /\ raised' = TRUE
       ELSE /\ \E raw \in Answers(credit_model, RawScores) :
                  call' = [op |-> "credit", status |-> "done",
                           features |-> call.features, nulls |-> call.nulls]
                          @@ CreditModelPredict(credit_model, call.features, raw)
            /\ raised' = FALSE
    /\ UNCHANGED <<pc, fraud_file, credit_file, fraud_model, credit_model,
                   fraud_log, credit_log, fraud_feature_names,
                   credit_feature_names, FRAUD_THRESHOLD, kept>>

\* predict adding the fraud features it derives to the caller's mapping
RiskPredictWritingDerived ==
    /\ pc = "serving"
    /\ call.op = "risk" /\ call.status = "pending"
    /\ IF RiskPredictRaises(call.nulls)
       THEN /\ call' = PredictionError(call)
            /\ raised' = TRUE
       ELSE /\ \E raw \in Answers(credit_model, RawScores),
                  proba \in Answers(fraud_model, Probabilities) :
                  LET features == call.features
                      credit_features ==
                          Without(CreditFeatures(features), CreditFeaturesNulls(call.nulls))
                      fraud_features ==
                          Without(FraudFeatures(features), FraudFeaturesNulls(call.nulls))
                      credit == CreditModelPredict(credit_model, credit_features, raw)
                      fraud == FraudModelPredict(fraud_model, fraud_features, proba)
                  IN  call' = [op |-> "risk", status |-> "done",
                               features |-> fraud_features @@ features,
                               nulls |-> call.nulls,
                               credit_features |-> credit_features,
                               fraud_features |-> fraud_features,
                               credit |-> credit, fraud |-> fraud,
                               result |-> RiskDecision(features, credit.result, fraud.result)]
            /\ raised' = FALSE
    /\ UNCHANGED <<pc, fraud_file, credit_file, fraud_model, credit_model,
                   fraud_log, credit_log, fraud_feature_names,
                   credit_feature_names, FRAUD_THRESHOLD, kept>>

\* POST /api/v1/scoring/risk: risk_model.predict(features)
RiskPredict ==
    /\ pc = "serving"
    /\ call.op = "risk" /\ call.status = "pending"
    /\ IF RiskPredictRaises(call.nulls)
       THEN /\ call' = PredictionError(call)
            /\ raised' = TRUE
       ELSE /\ \E raw \in Answers(credit_model, RawScores),
                  proba \in Answers(fraud_model, Probabilities) :
                  LET features == call.features
                      credit_features ==
                          Without(CreditFeatures(features), CreditFeaturesNulls(call.nulls))
                      fraud_features ==
                          Without(FraudFeatures(features), FraudFeaturesNulls(call.nulls))
                      credit == CreditModelPredict(credit_model, credit_features, raw)
                      fraud == FraudModelPredict(fraud_model, fraud_features, proba)
                  IN  call' = [op |-> "risk", status |-> "done",
                               features |-> features, nulls |-> call.nulls,
                               credit_features |-> credit_features,
                               fraud_features |-> fraud_features,
                               credit |-> credit, fraud |-> fraud,
                               result |-> RiskDecision(features, credit.result, fraud.result)]
            /\ raised' = FALSE
    /\ UNCHANGED <<pc, fraud_file, credit_file, fraud_model, credit_model,
                   fraud_log, credit_log, fraud_feature_names,
                   credit_feature_names, FRAUD_THRESHOLD, kept>>

\* GET /health/ready
ReadinessCheck ==
    /\ pc = "serving"
    /\ call.status = "done"
    /\ call' = [op |-> "ready", status |-> "done",
                result |-> [status |-> "ready",
                            models |-> [fraud_detection |-> "available",
                                        credit_scoring |-> "available",
                                        risk_scoring |-> "available"]]]
    /\ raised' = FALSE
    /\ UNCHANGED <<pc, fraud_file, credit_file, fraud_model, credit_model,
                   fraud_log, credit_log, fraud_feature_names,
                   credit_feature_names, FRAUD_THRESHOLD, kept>>

\* GET /api/v1/fraud/health
FraudHealthCheck ==
    /\ pc = "serving"
    /\ call.status = "done"
    /\ call' = [op |-> "fraud_health", status |-> "done",
                result |-> [status |-> "healthy",
                            model_loaded |-> fraud_model # "None"]]
    /\ raised' = FALSE
    /\ UNCHANGED <<pc, fraud_file, credit_file, fraud_model, credit_model,
                   fraud_log, credit_log, fraud_feature_names,
                   credit_feature_names, FRAUD_THRESHOLD, kept>>

\* GET /api/v1/scoring/health
ScoringHealthCheck ==
    /\ pc = "serving"
    /\ call.status = "done"
    /\ call' = [op |-> "scoring_health", status |-> "done",
                result |-> [status |-> "healthy",
                            credit_model_loaded |-> credit_model # "None",
                            risk_model_loaded |-> TRUE]]
    /\ raised' = FALSE
    /\ UNCHANGED <<pc, fraud_file, credit_file, fraud_model, credit_model,
                   fraud_log, credit_log, fraud_feature_names,
                   credit_feature_names, FRAUD_THRESHOLD, kept>>

-----------------------------------------------------------------------------
(* The service from process start: imports, then requests in any order. *)

Init ==
    /\ pc = "import_fraud"
    /\ fraud_file \in FileStates
    /\ credit_file \in FileStates
    /\ fraud_model = "None"
    /\ credit_model = "None"
    /\ fraud_log = "none"
    /\ credit_log = "none"
    /\ fraud_feature_names = <<>>
    /\ credit_feature_names = <<>>
    /\ FRAUD_THRESHOLD \in Thresholds
    /\ raised = FALSE
    /\ call = [op |-> "none", status |-> "done"]
    /\ kept = [op |-> "none"]

Next ==
    \/ ImportFraudModel
    \/ ImportCreditModel
    \/ ArtifactChange
    \/ \E op \in {"fraud", "credit", "risk"}, f \in ScenarioInputs : Request(op, f)
    \/ FraudPredict
    \/ CreditPredict
    \/ RiskPredict
    \/ ReadinessCheck
    \/ FraudHealthCheck
    \/ ScoringHealthCheck

Spec == Init /\ [][Next]_vars

(* One request to a scorer once the imports are done, over that scorer's   *)
(* inputs.                                                                 *)

\* the state the imports leave when the files are fraud and credit
Imported(fraud, credit) ==
    /\ pc = "serving"
    /\ fraud_file = fraud
    /\ credit_file = credit
    /\ fraud_model = LoadModel(fraud).model
    /\ credit_model = LoadModel(credit).model
    /\ fraud_log = LoadModel(fraud).log
    /\ credit_log = LoadModel(credit).log
    /\ fraud_feature_names = FraudFeatureNames
    /\ credit_feature_names = CreditFeatureNames
    /\ raised = FALSE
    /\ kept = [op |-> "none"]

\* that state with a request pending
Serving(fraud, credit, op, inputs) ==
    /\ Imported(fraud, credit)
    /\ call \in {[op |-> op, status |-> "pending", features |-> f, nulls |-> {}] :
                    f \in inputs}

InitFraud ==
    /\ \E file \in FileStates : Serving(file, "missing", "fraud", FraudInputs)
    /\ FRAUD_THRESHOLD \in Thresholds

SpecFraud == InitFraud /\ [][FraudPredict]_vars

InitCredit ==
    /\ \E file \in FileStates : Serving("missing", file, "credit", CreditInputs)
    /\ FRAUD_THRESHOLD = DefaultFraudThreshold

SpecCredit == InitCredit /\ [][CreditPredict]_vars

(* One request to the risk aggregator, or to a scorer directly, over the    *)
(* aggregator's inputs.                                                    *)

InitRisk ==
    /\ \E fraud \in FileStates, credit \in FileStates, op \in {"fraud", "credit", "risk"} :
          Serving(fraud, credit, op, RiskInputs)
    /\ FRAUD_THRESHOLD = DefaultFraudThreshold

NextRisk == FraudPredict \/ CreditPredict \/ RiskPredict

SpecRisk == InitRisk /\ [][NextRisk]_vars

(* Requests in any order once the imports are done, a caller keeping one   *)
(* answer to compare the later ones with.                                  *)

InitHistory ==
    /\ \E fraud \in FileStates, credit \in FileStates, op \in {"fraud", "credit", "risk"} :
          Serving(fraud, credit, op, ScenarioInputs)
    /\ FRAUD_THRESHOLD = DefaultFraudThreshold

NextHistory ==
    \/ \E op \in {"fraud", "credit", "risk"}, f \in ScenarioInputs : Request(op, f)
    \/ FraudPredict
    \/ CreditPredict
    \/ RiskPredict
    \/ Keep

SpecHistory == InitHistory /\ [][NextHistory]_vars

(* One request with a null in one of its optional fields.                  *)

\* the Optional fields of FraudPredictionRequest, CreditScoringRequest and
\* RiskScoringRequest
OptionalFields ==
    [fraud |-> {"hour", "day_of_week", "transaction_count_24h",
                "transaction_count_7d", "avg_amount_7d", "beneficiary_age_days",
                "device_risk", "location_risk", "user_account_age_days",
                "user_balance"},
     credit |-> {"monthly_income", "total_balance", "transaction_count_30d",
                 "delinquency_count", "loan_history_count",
                 "avg_transaction_amount", "credit_utilization", "savings_ratio"},
     risk |-> {"monthly_income", "total_balance", "transaction_count_30d",
               "delinquency_count", "loan_history_count", "amount", "hour",
               "day_of_week", "transaction_count_24h", "transaction_count_7d",
               "avg_amount_7d", "beneficiary_age_days", "device_risk",
               "location_risk"}]

\* the requests for op that send null in one optional field
NullRequests(op) ==
    {[op |-> op, status |-> "pending", features |-> Without(f, {k}), nulls |-> {k}] :
        f \in ScenarioInputs, k \in OptionalFields[op]}

InitNull ==
    /\ \E fraud \in FileStates, credit \in FileStates :
          Imported(fraud, credit)
    /\ FRAUD_THRESHOLD = DefaultFraudThreshold
    /\ call \in UNION {NullRequests(op) : op \in {"fraud", "credit", "risk"}}

SpecNull == InitNull /\ [][NextRisk]_vars

-----------------------------------------------------------------------------
(* Properties *)

Done(op) == call.op = op /\ call.status = "done"

\* a risk in 1/85000 rounded to four decimals, in ten-thousandths
FourDecimals(risk) == (4 * risk + 17) \div 34

\* C1: with no fraud artifact loaded, predict returns a fraud_score in [0,1]
\* for every feature set, negative or large device_risk and location_risk
\* included.
C1_FraudScoreInUnitRange ==
    (Done("fraud") /\ call.path = "rule")
        => (call.result.fraud_score >= 0 /\ call.result.fraud_score <= 1000)

\* C2: on both paths the credit scorer returns an integer credit_score with
\* 300 <= credit_score <= 850: a regressor answer below 300 gives 300 and its
\* labels, one above 850 gives 850 and its labels, one in between its integer
\* part.
C2_CreditScoreInRange ==
    Done("credit") =>
        /\ call.result.credit_score \in 300..850
        /\ call.path = "model" =>
              /\ call.model_output < 30000 =>
                    /\ call.result.credit_score = 300
                    /\ call.result.risk_category = "HIGH"
                    /\ call.result.score_range = "VERY_POOR"
              /\ call.model_output > 85000 =>
                    /\ call.result.credit_score = 850
                    /\ call.result.risk_category = "LOW"
                    /\ call.result.score_range = "EXCELLENT"
              /\ call.model_output \in 30000..85000 =>
                    /\ call.result.credit_score * 100 <= call.model_output
                    /\ call.model_output < (call.result.credit_score + 1) * 100

C2_Witness ==
    /\ Done("credit")
    /\ call.path = "model"
    /\ call.model_output > 85000
    /\ call.result.credit_score = 850

\* the rule-based credit scorer was given the empty feature set, directly or
\* by the risk aggregator
EmptyToCreditRules ==
    /\ call.status = "done"
    /\ call.op \in {"credit", "risk"}
    /\ call.features = Empty
    /\ call.op = "credit" => call.path = "rule"
    /\ call.op = "risk" => call.credit.path = "rule"

\* what the credit scorer returned in that call
CreditResultOfCall == IF call.op = "risk" THEN call.credit.result ELSE call.result

\* C3 as stated: the empty feature set yields credit_score 600 and
\* risk_category MEDIUM_HIGH from the rule-based credit scorer, called
\* directly or through the risk aggregator.
C3_EmptyYields600 ==
    EmptyToCreditRules =>
        /\ CreditResultOfCall.credit_score = 600
        /\ CreditResultOfCall.risk_category = "MEDIUM_HIGH"

\* C3 amended: the empty feature set yields credit_score 690 and
\* risk_category MEDIUM from the rule-based credit scorer, called directly or
\* through the risk aggregator, whose decision reports the same 690.
C3_EmptyYields690 ==
    EmptyToCreditRules =>
        /\ CreditResultOfCall.credit_score = 690
        /\ CreditResultOfCall.risk_category = "MEDIUM"
        /\ call.op = "risk" => call.result.credit_score = 690

C3_Witness ==
    /\ EmptyToCreditRules
    /\ call.op = "risk"
    /\ call.result.credit_score = 690

\* the risk aggregator served Scenario 3 with no artifact loaded
Scenario3ByRules ==
    /\ Done("risk")
    /\ call.features = Scenario3
    /\ call.credit.path = "rule"
    /\ call.fraud.path = "rule"

\* C4 as stated: Scenario 3 with no artifacts returns credit_score 810,
\* fraud_risk 1.0, amount_risk 0.8, overall_risk_score 0.4188 to four
\* decimals, risk_category MEDIUM and recommendation REVIEW.
C4_Scenario3Overall4188 ==
    Scenario3ByRules =>
        /\ call.result.credit_score = 810
        /\ call.result.components.fraud_risk = 1000
        /\ call.result.components.amount_risk = 800
        /\ FourDecimals(call.result.overall_risk_score) = 4188
        /\ call.result.risk_category = "MEDIUM"
        /\ call.result.recommendation = "REVIEW"

\* C4 amended: Scenario 3 with no artifacts returns credit_score 810,
\* fraud_risk 1.0, amount_risk 0.8, overall_risk_score 0.5788 to four
\* decimals (49200/85000), risk_category MEDIUM and recommendation REVIEW.
C4_Scenario3Overall5788 ==
    Scenario3ByRules =>
        /\ call.result.credit_score = 810
        /\ call.result.components.fraud_risk = 1000
        /\ call.result.components.amount_risk = 800
        /\ call.result.overall_risk_score = 49200
        /\ FourDecimals(call.result.overall_risk_score) = 5788
        /\ call.result.risk_category = "MEDIUM"
        /\ call.result.recommendation = "REVIEW"

C4_Witness == Scenario3ByRules /\ call.result.recommendation = "REVIEW"

\* C5: in every decision of the risk aggregator, overall_risk_score is
\* 0.4*(1 - credit_score/850) + 0.4*fraud_score + 0.2*amount_risk clamped to
\* [0,1], computed from the credit_score, fraud_score and
\* components.amount_risk of that decision; components.credit_risk is
\* 1 - credit_score/850 and components.fraud_risk is fraud_score.
C5_CompositionLaw ==
    Done("risk") =>
        LET d == call.result
            sum == 40 * (850 - d.credit_score) + 34 * d.fraud_score
                   + 17 * d.components.amount_risk
        IN  /\ d.overall_risk_score =
                  (IF sum < 0 THEN 0 ELSE IF sum > 85000 THEN 85000 ELSE sum)
            /\ d.components.credit_risk = 850 - d.credit_score
            /\ d.components.fraud_risk = d.fraud_score

\* a decision whose weighted sum is negative and is clamped to 0
C5_Witness ==
    /\ Done("risk")
    /\ 40 * (850 - call.result.credit_score) + 34 * call.result.fraud_score
       + 17 * call.result.components.amount_risk < 0
    /\ call.result.overall_risk_score = 0

\* C6: in every fraud result, on either path and for every configured
\* FRAUD_THRESHOLD, is_fraud is true exactly when fraud_score >= FRAUD_THRESHOLD,
\* and risk_level is HIGH from 0.7, MEDIUM from 0.4 and LOW below, whatever
\* the threshold.
C6_IsFraudAndRiskLevel ==
    Done("fraud") =>
        /\ call.result.is_fraud = (call.result.fraud_score >= FRAUD_THRESHOLD)
        /\ call.result.fraud_score >= 700 => call.result.risk_level = "HIGH"
        /\ (call.result.fraud_score >= 400 /\ call.result.fraud_score < 700)
              => call.result.risk_level = "MEDIUM"
        /\ call.result.fraud_score < 400 => call.result.risk_level = "LOW"

\* a rule-based score between a configured threshold of 0.3 and the default
C6_Witness ==
    /\ Done("fraud")
    /\ call.path = "rule"
    /\ FRAUD_THRESHOLD = 300
    /\ call.result.fraud_score >= 300 /\ call.result.fraud_score < 400
    /\ call.result.is_fraud
    /\ call.result.risk_level = "LOW"

\* C7: the fraud-feature subset the risk aggregator passes to the fraud
\* scorer satisfies the derivation formulas with respect to its own entries:
\* is_new_beneficiary, is_unusual_hour, amount_vs_avg_ratio and
\* velocity_score.
C7_DerivedFeaturesAgree ==
    Done("risk") =>
        LET ff == call.fraud_features
        IN  /\ ff.is_new_beneficiary = (IF ff.beneficiary_age_days < 7 THEN 1 ELSE 0)
            /\ ff.is_unusual_hour = (IF ff.hour < 6 \/ ff.hour > 23 THEN 1 ELSE 0)
            /\ ff.amount_vs_avg_ratio = Divide(ff.amount, Max(ff.avg_amount_7d, 1))
            /\ ff.velocity_score = Min(ff.transaction_count_24h, 10)

\* C8: the readiness probe never reports a scorer whose handle is absent as
\* available: the reported status agrees with the scorer's model-loaded flag.
C8_ReadinessAgreesWithHandles ==
    Done("ready") =>
        /\ (call.result.models.fraud_detection = "available") = (fraud_model # "None")
        /\ (call.result.models.credit_scoring = "available") = (credit_model # "None")

\* C9: once a scorer's load attempt has ended without a model, no step loads
\* again or changes the handle, whatever the artifact file becomes, and every
\* predict that completes takes the rule-based path.
C9_NoReloadAfterFailedLoad ==
    [][/\ (pc # "import_fraud" /\ fraud_model = "None") =>
              /\ fraud_model' = "None"
              /\ fraud_log' = fraud_log
              /\ (call'.op = "fraud" /\ call'.status = "done") => call'.path = "rule"
              /\ (call'.op = "risk" /\ call'.status = "done") => call'.fraud.path = "rule"
       /\ (pc = "serving" /\ credit_model = "None") =>
              /\ credit_model' = "None"
              /\ credit_log' = credit_log
              /\ (call'.op = "credit" /\ call'.status = "done") => call'.path = "rule"
              /\ (call'.op = "risk" /\ call'.status = "done") => call'.credit.path = "rule"
      ]_vars

\* a valid artifact is on disk, the handle is still absent and a predict has
\* been answered by the rules
C9_Witness ==
    /\ fraud_log = "not_found"
    /\ fraud_file = "valid"
    /\ fraud_model = "None"
    /\ Done("fraud")
    /\ call.path = "rule"

\* C10: constructing a scorer whose artifact is missing or fails to
\* deserialize completes without raising and leaves the handle absent, and
\* every later predict returns a complete result from the rule-based path.
C10_ArtifactErrorsAbsorbed ==
    /\ ~raised
    /\ pc # "failed"
    /\ fraud_log \in {"not_found", "load_error"} =>
          /\ fraud_model = "None"
          /\ Done("fraud") =>
                /\ call.path = "rule"
                /\ DOMAIN call.result = {"fraud_score", "risk_level", "is_fraud"}
          /\ Done("risk") => call.fraud.path = "rule"
    /\ credit_log \in {"not_found", "load_error"} =>
          /\ credit_model = "None"
          /\ Done("credit") =>
                /\ call.path = "rule"
                /\ DOMAIN call.result =
                      {"credit_score", "risk_category", "score_range", "factors"}
          /\ Done("risk") => call.credit.path = "rule"
    /\ Done("risk") =>
          DOMAIN call.result =
              {"overall_risk_score", "risk_category", "components",
               "credit_score", "fraud_score", "recommendation"}

\* the fraud artifact failed to deserialize and a predict was answered
C10_Witness ==
    /\ fraud_log = "load_error"
    /\ fraud_model = "None"
    /\ Done("fraud")
    /\ call.path = "rule"

\* what the loaded artifacts answered in a completed call: nothing on the
\* rule path
ModelOutputs(c) ==
    LET of_scorer(r) == IF r.path = "model" THEN <<r.model_output>> ELSE <<>>
    IN  IF c.op = "risk"
        THEN <<of_scorer(c.credit), of_scorer(c.fraud)>>
        ELSE <<of_scorer(c)>>

\* C11: requests are history-independent.  A step that completes a predict
\* writes neither the model handles, nor the feature-name lists, nor the
\* threshold, nor the caller's feature mapping; and its answer is the one a
\* caller kept from the same request made earlier, whatever was served in
\* between, given that the loaded artifacts (which the handle never replaces)
\* answer the same.
C11_HistoryIndependent ==
    [][(call.status = "pending" /\ call'.status = "done") =>
          /\ UNCHANGED <<fraud_model, credit_model, fraud_feature_names,
                         credit_feature_names, FRAUD_THRESHOLD>>
          /\ call'.features = call.features
          /\ (/\ kept.op = call.op
              /\ kept.answer.features = call.features
              /\ ModelOutputs(kept.answer) = ModelOutputs(call'))
                => call' = kept.answer
      ]_vars

\* Scenario 3 answered by the rules again after other requests, as the
\* answer kept
C11_Witness ==
    /\ kept.op = "risk"
    /\ kept.later
    /\ Done("risk")
    /\ call.features = Scenario3
    /\ call.fraud.path = "rule"
    /\ call = kept.answer

\* C12: a request holding a value that is not a number, such as a null in an
\* optional field, ends in the prediction error; it is never answered with a
\* result computed without that field.
C12_NullIsPredictionError ==
    (call.status = "done" /\ call.nulls # {})
        => ("detail" \in DOMAIN call /\ call.detail = "Prediction error")

\* C13: the amount risk of a decision is 0.1 for an amount up to 50000, 0.3
\* above 50000 up to 100000, 0.5 above 100000 up to 200000 and 0.8 above
\* 200000, the edges belonging to the lower band; no larger amount gets a
\* smaller amount risk.
C13_AmountRiskBands ==
    Done("risk") =>
        LET amount == Get(call.features, "amount", 0)
            amount_risk == call.result.components.amount_risk
        IN  /\ amount <= 50000 => amount_risk = 100
            /\ (amount > 50000 /\ amount <= 100000) => amount_risk = 300
            /\ (amount > 100000 /\ amount <= 200000) => amount_risk = 500
            /\ amount > 200000 => amount_risk = 800
            /\ \A larger \in AmountValues :
                  larger >= amount => CalculateAmountRisk(larger) >= amount_risk

\* the edge of the lowest band
C13_Witness ==
    /\ Done("risk")
    /\ "amount" \in DOMAIN call.features
    /\ call.features.amount = 50000
    /\ call.result.components.amount_risk = 100

\* C14: with no fraud artifact, the fraud_score of a feature set is at most
\* that of the same set with a larger amount and at least that of the same set
\* with a smaller one; while the cap is not reached, the amount adds 0 up to
\* 50000, 0.1 up to 100000, 0.2 up to 200000 and 0.4 above.
C14_FraudScoreMonotoneInAmount ==
    (Done("fraud") /\ call.path = "rule" /\ "amount" \in DOMAIN call.features) =>
        LET amount == call.features.amount
            score == call.result.fraud_score
            with(a) == FraudMockPredict([call.features EXCEPT !.amount = a]).fraud_score
        IN  /\ \A other \in AmountValues :
                  /\ amount <= other => score <= with(other)
                  /\ other <= amount => with(other) <= score
            /\ score < 1000 =>
                  score - with(0) =
                      (IF amount <= 50000 THEN 0
                       ELSE IF amount <= 100000 THEN 100
                       ELSE IF amount <= 200000 THEN 200
                       ELSE 400)

\* an amount in the top band, alone in the feature set
C14_Witness ==
    /\ Done("fraud")
    /\ call.path = "rule"
    /\ call.features = [amount |-> 200001]
    /\ call.result.fraud_score = 400

\* C15: with no credit artifact, the credit_score of a feature set, after the
\* clamp and int(), is at most that of the same set with a larger
\* monthly_income and at least that of the same set with a smaller one.
C15_CreditScoreMonotoneInIncome ==
    (Done("credit") /\ call.path = "rule" /\ "monthly_income" \in DOMAIN call.features) =>
        LET income == call.features.monthly_income
            score == call.result.credit_score
            with(i) ==
                CreditMockPredict([call.features EXCEPT !.monthly_income = i]).credit_score
        IN  \A other \in IncomeValues :
               /\ income <= other => score <= with(other)
               /\ other <= income => with(other) <= score

\* the top income band with a rule score the clamp cuts to 850
C15_Witness ==
    /\ Done("credit")
    /\ call.path = "rule"
    /\ "monthly_income" \in DOMAIN call.features
    /\ call.features.monthly_income = 120000
    /\ CreditRuleScore(call.features) > 85000
    /\ call.result.credit_score = 850

\* C16: with no credit artifact, credit_score is the integer part of
\* 600 + age bonus (50 above 365 days, 30 above 180, 15 above 90) + income
\* bonus (100 above 100000, 60 above 50000, 30 above 25000)
\* - 20 * delinquency_count + 30 if loan_history_count > 0 + balance bonus
\* (50 above 100000, 30 above 50000), clamped to [300, 850], absent keys
\* taking the code's defaults; Scenario 2 yields 810, LOW, EXCELLENT.
C16_CreditRuleFormula ==
    (Done("credit") /\ call.path = "rule") =>
        LET f == call.features
            age == IF "account_age_days" \in DOMAIN f THEN f.account_age_days ELSE 365
            income == IF "monthly_income" \in DOMAIN f THEN f.monthly_income ELSE 50000
            balance == IF "total_balance" \in DOMAIN f THEN f.total_balance ELSE 100000
            delinquency == IF "delinquency_count" \in DOMAIN f THEN f.delinquency_count ELSE 0
            loans == IF "loan_history_count" \in DOMAIN f THEN f.loan_history_count ELSE 0
            \* in hundredths of a point
            sum == 60000
                   + (CASE age > 365 -> 5000 [] age > 180 /\ age <= 365 -> 3000
                        [] age > 90 /\ age <= 180 -> 1500 [] OTHER -> 0)
                   + (CASE income > 100000 -> 10000
                        [] income > 50000 /\ income <= 100000 -> 6000
                        [] income > 25000 /\ income <= 50000 -> 3000 [] OTHER -> 0)
                   - 20 * delinquency
                   + (IF loans > 0 THEN 3000 ELSE 0)
                   + (CASE balance > 100000 -> 5000
                        [] balance > 50000 /\ balance <= 100000 -> 3000 [] OTHER -> 0)
            clamped == IF sum < 30000 THEN 30000 ELSE IF sum > 85000 THEN 85000 ELSE sum
        IN  /\ call.result.credit_score * 100 <= clamped
            /\ clamped < (call.result.credit_score + 1) * 100
            /\ f = Scenario2 =>
                  /\ call.result.credit_score = 810
                  /\ call.result.risk_category = "LOW"
                  /\ call.result.score_range = "EXCELLENT"

C16_Witness ==
    /\ Done("credit")
    /\ call.path = "rule"
    /\ call.features = Scenario2
    /\ call.result.credit_score = 810
    /\ call.result.score_range = "EXCELLENT"

\* C17: with no fraud artifact, every feature set whose rule contributions
\* add up to more than 1 yields fraud_score exactly 1.0 and risk_level HIGH,
\* and is_fraud true at the threshold 0.5; Scenario 1 adds up to 1.14.
C17_SumAboveOneIsCapped ==
    (Done("fraud") /\ call.path = "rule") =>
        LET f == call.features
            amount == IF "amount" \in DOMAIN f THEN f.amount ELSE 0
            age == IF "beneficiary_age_days" \in DOMAIN f THEN f.beneficiary_age_days ELSE 365
            count == IF "transaction_count_24h" \in DOMAIN f THEN f.transaction_count_24h ELSE 0
            device == IF "device_risk" \in DOMAIN f THEN f.device_risk ELSE 0
            location == IF "location_risk" \in DOMAIN f THEN f.location_risk ELSE 0
            \* in thousandths
            sum == (CASE amount > 200000 -> 400
                      [] amount > 100000 /\ amount <= 200000 -> 200
                      [] amount > 50000 /\ amount <= 100000 -> 100 [] OTHER -> 0)
                   + (IF age < 7 THEN 300 ELSE 0)
                   + (CASE count > 10 -> 300 [] count > 5 /\ count <= 10 -> 150
                        [] OTHER -> 0)
                   + device + location
        IN  /\ sum > 1000 =>
                  /\ call.result.fraud_score = 1000
                  /\ call.result.risk_level = "HIGH"
                  /\ FRAUD_THRESHOLD = 500 => call.result.is_fraud
            /\ f = Scenario1 => sum = 1140

C17_Witness ==
    /\ Done("fraud")
    /\ call.path = "rule"
    /\ call.features = Scenario1
    /\ FRAUD_THRESHOLD = 500
    /\ call.result.fraud_score = 1000
    /\ call.result.is_fraud

\* C18: in every credit result, on either path, risk_category and
\* score_range are the ones the cut points 750, 700, 650 and 600 give the
\* returned integer credit_score, also when the clamped score was not whole,
\* and the two labels correspond pairwise.
C18_LabelsMatchReturnedScore ==
    Done("credit") =>
        LET score == call.result.credit_score
            band == IF score >= 750 THEN 1
                    ELSE IF score >= 700 THEN 2
                    ELSE IF score >= 650 THEN 3
                    ELSE IF score >= 600 THEN 4
                    ELSE 5
            categories == <<"LOW", "MEDIUM_LOW", "MEDIUM", "MEDIUM_HIGH", "HIGH">>
            ranges == <<"EXCELLENT", "GOOD", "FAIR", "POOR", "VERY_POOR">>
        IN  /\ call.result.risk_category = categories[band]
            /\ call.result.score_range = ranges[band]
            /\ \E b \in 1..5 : /\ call.result.risk_category = categories[b]
                               /\ call.result.score_range = ranges[b]

\* a regressor answer of 749.99, returned as 749
C18_Witness ==
    /\ Done("credit")
    /\ call.path = "model"
    /\ call.model_output = 74999
    /\ call.result.credit_score = 749
    /\ call.result.risk_category = "MEDIUM_LOW"
    /\ call.result.score_range = "GOOD"

\* C19: in every decision, risk_category is LOW below 0.3, MEDIUM from 0.3
\* below 0.6 and HIGH from 0.6, and recommendation is BLOCK above 0.7, REVIEW
\* above 0.4 up to 0.7 and APPROVE up to 0.4, of the clamped overall risk
\* alone; BLOCK comes only with HIGH and LOW only with APPROVE.
C19_CategoryAndRecommendation ==
    Done("risk") =>
        LET d == call.result
            \* 85000 * overall
            overall == d.overall_risk_score
        IN  /\ overall < 25500 => d.risk_category = "LOW"
            /\ (overall >= 25500 /\ overall < 51000) => d.risk_category = "MEDIUM"
            /\ overall >= 51000 => d.risk_category = "HIGH"
            /\ overall > 59500 => d.recommendation = "BLOCK"
            /\ (overall > 34000 /\ overall <= 59500) => d.recommendation = "REVIEW"
            /\ overall <= 34000 => d.recommendation = "APPROVE"
            /\ d.recommendation = "BLOCK" => d.risk_category = "HIGH"
            /\ d.risk_category = "LOW" => d.recommendation = "APPROVE"

C19_Witness ==
    /\ Done("risk")
    /\ call.result.overall_risk_score > 59500
    /\ call.result.recommendation = "BLOCK"
    /\ call.result.risk_category = "HIGH"

\* vector has n entries, the i-th being the value features gives the i-th of
\* names, or 0 when it gives none
IsFeatureVector(vector, names, n, features) ==
    /\ Len(names) = n
    /\ Len(vector) = n
    /\ \A i \in 1..n :
          IF names[i] \in DOMAIN features
          THEN vector[i] = features[names[i]]
          ELSE vector[i] = 0

\* C20: whenever a scorer builds its feature vector, for a direct request or
\* for the aggregator, the vector has one entry per declared name (15 for
\* fraud, 9 for credit) in the declared order, the mapping's value where it
\* has the name and 0.0 where it lacks it; building it does not fail on a
\* missing key and leaves the mapping and the name list as they were.
C20_FeatureVector ==
    [][(call.status = "pending" /\ call'.status = "done") =>
          /\ ~raised'
          /\ call'.features = call.features
          /\ UNCHANGED <<fraud_feature_names, credit_feature_names>>
          /\ (call.op = "fraud" /\ call'.path = "model") =>
                IsFeatureVector(call'.feature_vector, FraudFeatureNames, 15, call.features)
          /\ (call.op = "credit" /\ call'.path = "model") =>
                IsFeatureVector(call'.feature_vector, CreditFeatureNames, 9, call.features)
          /\ (call.op = "risk" /\ call'.fraud.path = "model") =>
                IsFeatureVector(call'.fraud.feature_vector, FraudFeatureNames, 15,
                                call'.fraud_features)
          /\ (call.op = "risk" /\ call'.credit.path = "model") =>
                IsFeatureVector(call'.credit.feature_vector, CreditFeatureNames, 9,
                                call'.credit_features)
      ]_vars

\* a mapping that lacks amount and has device_risk, made a vector of 15
C20_Witness ==
    /\ Done("fraud")
    /\ call.path = "model"
    /\ "amount" \notin DOMAIN call.features
    /\ "device_risk" \in DOMAIN call.features
    /\ Len(call.feature_vector) = 15
    /\ call.feature_vector[1] = 0
    /\ call.feature_vector[8] = call.features.device_risk

\* what the rule sum of a feature set gains from its account_age_days and
\* from its monthly_income, in hundredths of a point: the sum less the sum of
\* the same set with that key at 0
AgeBonus(features) ==
    CreditRuleScore(features) - CreditRuleScore(("account_age_days" :> 0) @@ features)

IncomeBonus(features) ==
    CreditRuleScore(features) - CreditRuleScore(("monthly_income" :> 0) @@ features)

\* C21: in every rule-based credit result, for feature sets with missing keys
\* too, the note "New account - negative impact" comes only with a score that
\* got no account-age bonus, and the note "Low income - negative impact" only
\* with a score that got no income bonus.
C21_FactorsAgreeWithBonuses ==
    (Done("credit") /\ call.path = "rule") =>
        LET factors == call.result.factors
        IN  /\ ("account_age" \in DOMAIN factors
                 /\ factors.account_age = "New account - negative impact")
                  => AgeBonus(call.features) = 0
            /\ ("income" \in DOMAIN factors
                 /\ factors.income = "Low income - negative impact")
                  => IncomeBonus(call.features) = 0

\* C22: with no artifact loaded, the credit_score and fraud_score of a
\* decision are the ones the credit scorer and the fraud scorer return for
\* the caller's own feature set: the defaults and derived features the
\* aggregator adds change neither rule-based score.
C22_AggregatorScoresAreDirectScores ==
    (Done("risk") /\ call.credit.path = "rule" /\ call.fraud.path = "rule") =>
        /\ call.result.credit_score = CreditMockPredict(call.features).credit_score
        /\ call.result.fraud_score = FraudMockPredict(call.features).fraud_score

\* a decision for a feature set that has an amount and a device_risk but
\* neither monthly_income nor beneficiary_age_days
C22_Witness ==
    /\ Done("risk")
    /\ call.credit.path = "rule"
    /\ call.fraud.path = "rule"
    /\ {"amount", "device_risk"} \subseteq DOMAIN call.features
    /\ "monthly_income" \notin DOMAIN call.features
    /\ "beneficiary_age_days" \notin DOMAIN call.features
    /\ call.features.amount = 250000
    /\ call.result.fraud_score = FraudMockPredict(call.features).fraud_score
    /\ call.result.fraud_score > 0

====
